---------------------------- MODULE Spec2Model ----------------------------
(***************************************************************************)
(* InSighto: the analysis pipeline of core/agent.py (Agent.run_analysis),  *)
(* the chart engine of core/analyzer.py (DataAnalyzer), the narrative      *)
(* client of core/llm_client.py (LLMClient) and the result store of        *)
(* core/storage.py (Storage), with the request handlers of app.py that     *)
(* drive them.                                                             *)
(*                                                                         *)
(* Text is modelled as a sequence of tokens, so that replace/strip and     *)
(* truthiness ("if code:") are computed and not assumed.                   *)
(***************************************************************************)
EXTENDS Integers, Sequences, FiniteSets, TLC

VARIABLES db, store, agent, unwritable, an, cc, cl, rg, pr

vars == <<db, store, agent, unwritable, an, cc, cl, rg, pr>>

\* Python's None, where a text is expected: a value no text of the model equals.
None == <<"None">>

-----------------------------------------------------------------------------
(* Bounds of the model.                                                    *)

\* Number of start_analysis requests (Agent objects) the model follows.
MaxRuns == 2

Runs == 1..MaxRuns

\* Session ids handed out by upload_file (uuid4 values), and an id that no
\* upload was given.
Sessions == {"s1"}
UnknownId == "s0"
SessionIds == Sessions \cup {UnknownId}

\* What can be written to a session directory; in one behaviour the writes
\* of at most one of them fail (a file that cannot be created).
WriteTargets == {"cleaned", "profile", "charts", "insights", "report"}
WriteFaults == {{}} \cup {{w} : w \in WriteTargets}

-----------------------------------------------------------------------------
(* Text helpers.                                                           *)

RECURSIVE RemoveTok(_, _)
\* str.replace(tok, "") on a token sequence.
RemoveTok(s, tok) ==
    IF s = <<>> THEN <<>>
    ELSE IF Head(s) = tok THEN RemoveTok(Tail(s), tok)
    ELSE <<Head(s)>> \o RemoveTok(Tail(s), tok)

Whitespace == {" ", "\n", "\t"}

RECURSIVE LStrip(_)
LStrip(s) ==
    IF s # <<>> /\ Head(s) \in Whitespace THEN LStrip(Tail(s)) ELSE s

RECURSIVE RStrip(_)
RStrip(s) ==
    IF s # <<>> /\ s[Len(s)] \in Whitespace
    THEN RStrip(SubSeq(s, 1, Len(s) - 1)) ELSE s

\* str.strip()
Strip(s) == RStrip(LStrip(s))

\* Python truthiness of an optional text: None and "" are falsy.
Truthy(x) == x # None /\ x # <<>>

-----------------------------------------------------------------------------
(* core/llm_client.py                                                      *)

\* What requests.post can do: raise (timeout, connection error), answer with
\* a non-200 status, or answer 200 with a content text.
HttpException == [kind |-> "exception", status |-> 0, content |-> <<>>]
HttpError == [kind |-> "response", status |-> 500, content |-> <<>>]
HttpOk(content) == [kind |-> "response", status |-> 200, content |-> content]

\* LLMClient._make_request: the content on a 200, None on any other status
\* and None when the request raises (the except clause).
_make_request(http) ==
    IF http.kind = "exception" THEN None
    ELSE IF http.status = 200 THEN http.content
    ELSE None

_fallback_insights == <<"FALLBACK_INSIGHTS">>
_fallback_summary == <<"FALLBACK_SUMMARY">>
_fallback_recommendations == <<"FALLBACK_RECOMMENDATIONS">>

\* LLMClient.available is set True in __init__ and never changed.
available == TRUE

generate_insights_unguarded(http) == _make_request(http)

generate_insights(http) ==
    IF ~available THEN _fallback_insights
    ELSE LET response == _make_request(http)
         IN  IF Truthy(response) THEN response ELSE _fallback_insights

generate_executive_summary(http) ==
    IF ~available THEN _fallback_summary
    ELSE LET response == _make_request(http)
         IN  IF Truthy(response) THEN response ELSE _fallback_summary

generate_recommendations(http) ==
    IF ~available THEN _fallback_recommendations
    ELSE LET response == _make_request(http)
         IN  IF Truthy(response) THEN response
             ELSE _fallback_recommendations

\* LLMClient.generate_chart_code: the response with its code fences removed
\* and stripped, None when there is no response.
generate_chart_code(http) ==
    IF ~available THEN None
    ELSE LET response == _make_request(http)
         IN  IF Truthy(response)
             THEN Strip(RemoveTok(RemoveTok(response, "FENCE_PYTHON"), "FENCE"))
             ELSE None

\* Contents the Narrative Generator answers a chart request with.
GoodCode == <<"FENCE_PYTHON", "\n", "GOOD", "\n", "FENCE">>
BadCode == <<"FENCE_PYTHON", "\n", "BAD", "\n", "FENCE">>
FenceOnly == <<"FENCE_PYTHON", "\n", "FENCE">>
\* An instruction that draws its chart after changing the frame in place
\* (df.drop(columns=[...], inplace=True)).
DropCode == <<"FENCE_PYTHON", "\n", "DROP", "\n", "GOOD", "\n", "FENCE">>

\* An instruction that never finishes (while True: pass).
LoopCode == <<"FENCE_PYTHON", "\n", "LOOP", "\n", "FENCE">>

\* Contents it answers a text request with.
InsightsText == <<"INSIGHTS">>
SummaryText == <<"SUMMARY">>
RecommendationsText == <<"RECOMMENDATIONS">>


-----------------------------------------------------------------------------
(* core/analyzer.py                                                        *)

\* The cap of the automatic run ("count < 5").
ChartCap == 5

RECURSIVE Replace(_, _, _)
\* str.replace(from, to) for a one-character `from`.
Replace(s, from, to) ==
    IF s = <<>> THEN <<>>
    ELSE (IF Head(s) = from THEN to ELSE <<Head(s)>>)
         \o Replace(Tail(s), from, to)

Range(s) == {s[i] : i \in 1..Len(s)}

\* exec(code, {}, local_env): whether running the instruction raises.
ExecRaises(code) == "BAD" \in Range(code)

\* exec(code, {}, local_env) is given no time limit: it returns only if the
\* instruction does.
ExecReturns(code) == "LOOP" \notin Range(code)

\* local_env = {..., 'df': self.df}; exec(code, {}, local_env): the
\* instruction is handed the analyzer's own frame, not a copy, so what it
\* does to the frame in place stays done, whether or not it raises later.
\* `df` is the set of columns of self.df; a DROP instruction drops `cols`.
ExecEffect(df, code, cols) ==
    IF "DROP" \in Range(code) THEN df \ cols ELSE df

\* plt.savefig(os.path.join(self.charts_dir, filename)): a name with a path
\* separator points into a directory that does not exist, and saving raises.
SaveRaises(filename_base) == "/" \in Range(filename_base)

_execute_plot_code_keeps_partial(charts, code, title, filename_base) ==
    [ok |-> ~ExecRaises(code), raised |-> FALSE,
     charts |-> Append(charts,
                  [type |-> "custom", title |-> title,
                   filename |-> filename_base \o <<".png">>,
                   code |-> code])]

\* DataAnalyzer._execute_plot_code: runs the instruction and appends a chart
\* of type custom; every exception is caught, the chart is not appended and
\* False is returned.  `raised` is an exception leaving the method.
_execute_plot_code(charts, code, title, filename_base) ==
    IF ExecRaises(code) \/ SaveRaises(filename_base)
    THEN [ok |-> FALSE, raised |-> FALSE, charts |-> charts]
    ELSE [ok |-> TRUE, raised |-> FALSE,
          charts |-> Append(charts,
                       [type |-> "custom", title |-> title,
                        filename |-> filename_base \o <<".png">>,
                        code |-> code])]

\* DataAnalyzer._save_plot: sanitises the name and appends a chart of type
\* basic.
_save_plot(charts, title, filename_base, code) ==
    LET base == Replace(Replace(Replace(filename_base, " ", <<"_">>),
                                "/", <<>>), "\\", <<>>)
    IN  Append(charts, [type |-> "basic", title |-> title,
                        filename |-> base \o <<".png">>, code |-> code])

\* DataAnalyzer._create_histogram / _create_bar_chart / _create_boxplot: a
\* rendering error is caught and printed, and the chart is not appended.
_create_histogram(charts, column, renderRaises) ==
    IF renderRaises THEN charts
    ELSE _save_plot(charts, <<"Distribution of ">> \o column,
                    <<"hist_">> \o column, <<"histplot ">> \o column)

_create_bar_chart(charts, column, renderRaises) ==
    IF renderRaises THEN charts
    ELSE _save_plot(charts, <<"Top categories in ">> \o column,
                    <<"bar_">> \o column, <<"countplot ">> \o column)

_create_boxplot(charts, numeric_cols, renderRaises) ==
    IF renderRaises THEN charts
    ELSE _save_plot(charts, <<"Box Plot Distribution">>,
                    <<"boxplot_comparison">>, <<"boxplot">>)

AiSlotOffByOne(a, env, http, title, filename_base) ==
    IF Len(env.numeric_cols) > 2 /\ a.count < ChartCap
    THEN LET code == generate_chart_code(http)
         IN  IF Truthy(code)
             THEN LET r == _execute_plot_code(a.charts, code, title,
                                              filename_base)
                  IN  IF r.raised THEN a
                      ELSE [count |-> a.count + 1, charts |-> r.charts,
                            df |-> ExecEffect(a.df, code,
                                              {env.numeric_cols[1]})]
             ELSE a
    ELSE a

\* One AI-suggested slot of analyze (slots 1 and 5): try: ask for the
\* instruction; if code: execute it and count the slot; except: pass.
AiSlot(a, env, http, title, filename_base) ==
    IF Len(env.numeric_cols) > 1 /\ a.count < ChartCap
    THEN LET code == generate_chart_code(http)
         IN  IF Truthy(code)
             THEN LET r == _execute_plot_code(a.charts, code, title,
                                              filename_base)
                  IN  IF r.raised THEN a
                      ELSE [count |-> a.count + 1, charts |-> r.charts,
                            df |-> ExecEffect(a.df, code,
                                              {env.numeric_cols[1]})]
             ELSE a
    ELSE a

\* Slot 1: correlation heatmap.
HeatmapSlot(a, env) ==
    AiSlot(a, env, env.heatmap, <<"Correlation Heatmap">>,
           <<"correlation_heatmap">>)

\* Slot 2: histogram of the first numeric column.
HistogramSlot(a, env) ==
    IF Len(env.numeric_cols) > 0 /\ a.count < ChartCap
    THEN [a EXCEPT
            !.count = a.count + 1,
            !.charts = _create_histogram(a.charts, env.numeric_cols[1],
                          \/ "hist" \in env.renderRaises
                          \/ env.numeric_cols[1] \notin a.df)]
    ELSE a

\* Slot 3: bar chart of the first categorical column.
BarSlot(a, env) ==
    IF Len(env.categorical_cols) > 0 /\ a.count < ChartCap
    THEN [a EXCEPT
            !.count = a.count + 1,
            !.charts = _create_bar_chart(a.charts, env.categorical_cols[1],
                          \/ "bar" \in env.renderRaises
                          \/ env.categorical_cols[1] \notin a.df)]
    ELSE a

\* Slot 4: box plot of the first five numeric columns.
BoxplotSlot(a, env) ==
    IF Len(env.numeric_cols) > 0 /\ a.count < ChartCap
    THEN [a EXCEPT
            !.count = a.count + 1,
            !.charts = _create_boxplot(a.charts, env.numeric_cols,
                          \/ "box" \in env.renderRaises
                          \/ ~(Range(env.numeric_cols) \subseteq a.df))]
    ELSE a

\* Slot 5: relationship plot.
RelationshipSlot(a, env) ==
    AiSlot(a, env, env.relationship, <<"Key Relationship Analysis">>,
           <<"ai_relationship_plot">>)

\* DataAnalyzer.__init__: self.df = df, self.charts = []; analyze: count = 0.
AnalyzerInit(env) ==
    [count |-> 0, charts |-> <<>>,
     df |-> Range(env.numeric_cols) \cup Range(env.categorical_cols)]

\* DataAnalyzer.analyze: the five slots in order; returns self.charts.
analyze(env) ==
    RelationshipSlot(
      BoxplotSlot(
        BarSlot(
          HistogramSlot(
            HeatmapSlot(AnalyzerInit(env), env), env), env), env), env).charts


-----------------------------------------------------------------------------
(* core/report_generator.py                                                *)

\* The content of a section: a text, or (visualizations) a chart list with
\* its length.
Content(text, charts) ==
    [text |-> text, total_charts |-> Len(charts), charts |-> charts]

DictAppend(d, key, value) == Append(d, [id |-> key, value |-> value])

RECURSIVE DictSet(_, _, _)
\* d[key] = value on a Python dict, kept as the sequence of its items in
\* insertion order: an existing key keeps its place, a new key goes last.
DictSet(d, key, value) ==
    IF d = <<>> THEN <<[id |-> key, value |-> value]>>
    ELSE IF Head(d).id = key
         THEN <<[id |-> key, value |-> value]>> \o Tail(d)
         ELSE <<Head(d)>> \o DictSet(Tail(d), key, value)

\* ReportGenerator.__init__
NewReport(session_id, filename) ==
    [session_id |-> session_id, filename |-> filename, sections |-> <<>>]

NoReport == NewReport("None", <<>>)

add_dataset_overview(report, profile) ==
    [report EXCEPT !.sections =
        DictSet(@, "dataset_overview", Content(profile, <<>>))]

add_data_quality(report, cleaning_summary) ==
    [report EXCEPT !.sections =
        DictSet(@, "data_quality", Content(cleaning_summary, <<>>))]

add_statistics(report, profile) ==
    [report EXCEPT !.sections =
        DictSet(@, "statistics", Content(profile, <<>>))]

add_visualizations(report, charts) ==
    [report EXCEPT !.sections =
        DictSet(@, "visualizations", Content(<<>>, charts))]

add_insights(report, insights_text) ==
    [report EXCEPT !.sections =
        DictSet(@, "insights", Content(insights_text, <<>>))]

add_executive_summary(report, summary_text) ==
    [report EXCEPT !.sections =
        DictSet(@, "executive_summary", Content(summary_text, <<>>))]

add_recommendations(report, recommendations_text) ==
    [report EXCEPT !.sections =
        DictSet(@, "recommendations", Content(recommendations_text, <<>>))]

\* The section of `report` stored under `id` (its content), None if absent.
Section(report, id) ==
    LET hits == {i \in 1..Len(report.sections) : report.sections[i].id = id}
    IN  IF hits = {} THEN Content(None, <<>>)
        ELSE report.sections[CHOOSE i \in hits : TRUE].value

-----------------------------------------------------------------------------
(* core/storage.py                                                         *)

ALLOWED_EXTENSIONS == {"csv", "xlsx", "xls"}

ResultTypes == {"profile", "charts", "insights", "report"}

\* The extension of a file name: the text after its last ".", None without.
Ext(filename) ==
    LET dots == {i \in 1..Len(filename) : filename[i] = "."}
    IN  IF dots = {} THEN None
        ELSE SubSeq(filename, (CHOOSE i \in dots : \A j \in dots : j <= i) + 1,
                    Len(filename))

\* Storage.allowed_file
allowed_file(filename) ==
    /\ "." \in Range(filename)
    /\ Len(Ext(filename)) = 1
    /\ Ext(filename)[1] \in ALLOWED_EXTENSIONS

AsciiTokens == {"data", "notes", ".", "csv", "xlsx", "xls", "txt"}

RECURSIVE KeepAscii(_)
KeepAscii(s) ==
    IF s = <<>> THEN <<>>
    ELSE (IF Head(s) \in AsciiTokens THEN <<Head(s)>> ELSE <<>>)
         \o KeepAscii(Tail(s))

RECURSIVE StripDots(_)
StripDots(s) ==
    IF s # <<>> /\ Head(s) = "." THEN StripDots(Tail(s))
    ELSE IF s # <<>> /\ s[Len(s)] = "."
         THEN StripDots(SubSeq(s, 1, Len(s) - 1))
         ELSE s

\* werkzeug's secure_filename as save_upload uses it: the non-ASCII
\* characters are dropped and leading and trailing dots stripped.
secure_filename(filename) == StripDots(KeepAscii(filename))

\* A row of the sessions table; NoRow where the id has none.
NoRow == [exists |-> FALSE, filename |-> <<>>, status |-> "none"]

\* Storage.get_session: the row, or None (here NoRow) for an unknown id.
get_session(d, session_id) == d[session_id]

\* Storage.update_session_status: UPDATE ... WHERE session_id = ?, which
\* changes nothing when the id has no row.
update_session_status(d, session_id, status) ==
    IF d[session_id].exists
    THEN [d EXCEPT ![session_id].status = status]
    ELSE d

\* The session directory storage/temp/<session_id>: the uploaded file, the
\* cleaned csv and the four <result_type>.json files.
EmptyDir ==
    [upload |-> "absent", cleaned |-> FALSE, has |-> {},
     profile |-> <<>>, charts |-> <<>>, insights |-> <<>>,
     report |-> NoReport]

save_analysis_result_shared(st, session_id, result_type, result_data, writeRaises) ==
    IF writeRaises THEN st
    ELSE [s \in DOMAIN st |->
            [st[s] EXCEPT !.has = @ \cup {result_type},
                          !.profile = IF result_type = "profile"
                                      THEN result_data ELSE @,
                          !.charts = IF result_type = "charts"
                                     THEN result_data ELSE @,
                          !.insights = IF result_type = "insights"
                                       THEN result_data ELSE @,
                          !.report = IF result_type = "report"
                                     THEN result_data ELSE @]]

\* Storage.save_analysis_result: writes <result_type>.json; an exception
\* while writing is caught and printed, and the call returns normally.
save_analysis_result(st, session_id, result_type, result_data, writeRaises) ==
    IF writeRaises THEN st
    ELSE [st EXCEPT ![session_id] =
            [@ EXCEPT !.has = @ \cup {result_type},
                      !.profile = IF result_type = "profile"
                                  THEN result_data ELSE @,
                      !.charts = IF result_type = "charts"
                                 THEN result_data ELSE @,
                      !.insights = IF result_type = "insights"
                                   THEN result_data ELSE @,
                      !.report = IF result_type = "report"
                                 THEN result_data ELSE @]]

\* Storage.get_analysis_result, asked whether the file exists.
has_analysis_result(st, session_id, result_type) ==
    result_type \in st[session_id].has

save_dataframe_nowhere(st, session_id, writeRaises) == st

\* Storage.save_dataframe: writes <session_id>_cleaned.csv; an exception is
\* caught and None returned.
save_dataframe(st, session_id, writeRaises) ==
    IF writeRaises THEN st
    ELSE [st EXCEPT ![session_id].cleaned = TRUE]

\* Storage.clear_session_data: shutil.rmtree of the session directory, the
\* uploaded file included; the sessions table is not touched.  An exception
\* is caught and False returned (here: before anything was removed).
clear_session_data(st, session_id, removeRaises) ==
    IF removeRaises THEN st
    ELSE [st EXCEPT ![session_id] = EmptyDir]

\* Storage.load_dataframe: None for a path without a supported extension and
\* when reading raises, else the frame ("empty" when it has no rows).
load_dataframe(filename, content) ==
    IF Ext(filename) = None THEN None
    ELSE IF Ext(filename) \notin {<<"csv">>, <<"xlsx">>, <<"xls">>} THEN None
    ELSE IF content \in {"absent", "garbage"} THEN None
    ELSE IF content = "norows" THEN <<"empty">>
    ELSE <<"frame">>


-----------------------------------------------------------------------------
(* core/agent.py: Agent.run_analysis                                       *)

\* The stages of the try block, in the order the code runs them.
Stages == <<"load", "clean", "profile", "chart", "narrate", "assemble",
            "persist">>

\* What the cleaned frame of an uploaded file with rows looks like to the
\* analyzer: two numeric columns and one text column.
FrameNumeric == <<<<"x">>, <<"y">>>>
FrameCategorical == <<<<"c">>>>

\* The outcomes of the Narrative Generator's five calls in one run.
Ng(chart1, chart5, text1, text2, text3) ==
    [heatmap |-> chart1, relationship |-> chart5, insights |-> text1,
     summary |-> text2, recommendations |-> text3]

\* Every call fails the same way: it raises, answers 500, or answers nothing.
NgDown(http) == Ng(http, http, http, http, http)

NgUp ==
    Ng(HttpOk(GoodCode), HttpOk(GoodCode), HttpOk(InsightsText),
       HttpOk(SummaryText), HttpOk(RecommendationsText))

\* One of the two instructions is malformed; the rest answers well.
NgBadHeatmap == [NgUp EXCEPT !.heatmap = HttpOk(BadCode)]
NgBadRelationship == [NgUp EXCEPT !.relationship = HttpOk(BadCode)]

NgIdle == NgDown(HttpException)

\* Every one of the five calls of a run came back without a text.
NgFailed(ng) ==
    \A call \in DOMAIN ng : ~Truthy(_make_request(ng[call]))

\* The AI-suggested slots whose instruction was returned and raised when
\* executed.
ExecFailed(ng) ==
    {slot \in {"heatmap", "relationship"} :
        /\ Truthy(generate_chart_code(ng[slot]))
        /\ ExecRaises(generate_chart_code(ng[slot]))}

Failing == {HttpException, HttpError, HttpOk(<<>>)}

NgBehaviours ==
    {NgDown(h) : h \in Failing} \cup {NgUp, NgBadHeatmap, NgBadRelationship}

\* An Agent object and the position of its run_analysis call.
AgentIdle ==
    [pc |-> "idle", session |-> "None", filename |-> None,
     raised |-> "none", ran |-> <<>>, ngFailed |-> FALSE,
     execFailed |-> {},
     charts |-> <<>>, insights |-> <<>>, report |-> NoReport,
     wrote |-> {}, cleanedSaved |-> FALSE, statusSet |-> <<>>,
     result |-> "none"]

\* The locals of run_analysis between the cleaning and the persisting.
Locals(a) ==
    [raised |-> a.raised, ran |-> a.ran, profile |-> <<>>,
     charts |-> <<>>, insights |-> <<>>, exec_summary |-> <<>>,
     recommendations |-> <<>>, report |-> NoReport]

AbortedNever(l) == FALSE

\* Inside the try block: once a statement has raised, control is in the
\* except clause and no later statement runs.
Aborted(l) == l.raised # "none"

\* One stage of the try block: `fault` names the stage in which a statement
\* raises; `done` is the locals after the stage when nothing raises.
Stage(l, name, fault, done) ==
    IF Aborted(l) THEN l
    ELSE IF fault = name
         THEN [l EXCEPT !.raised = name, !.ran = Append(@, name)]
         ELSE [done EXCEPT !.ran = Append(l.ran, name)]

\* STEP 3: DataProfiler(cleaned_df).generate_profile()
ProfileStage(l, fault) ==
    Stage(l, "profile", fault, [l EXCEPT !.profile = <<"PROFILE">>])

\* analyzer.analyze() on the cleaned frame, for each behaviour of the
\* Narrative Generator.
ChartsOf ==
    [ng \in NgBehaviours |->
        analyze([numeric_cols |-> FrameNumeric,
                 categorical_cols |-> FrameCategorical,
                 heatmap |-> ng.heatmap,
                 relationship |-> ng.relationship,
                 renderRaises |-> {}])]

\* STEP 4: DataAnalyzer(cleaned_df, session_id).analyze()
ChartStage(l, fault, ng) ==
    Stage(l, "chart", fault,
          [l EXCEPT !.charts = ChartsOf[ng]])

\* STEP 5: the three narrative calls.
NarrateStage(l, fault, ng) ==
    Stage(l, "narrate", fault,
          [l EXCEPT !.insights = generate_insights(ng.insights),
                    !.exec_summary = generate_executive_summary(ng.summary),
                    !.recommendations =
                        generate_recommendations(ng.recommendations)])

\* STEP 6: the seven add_* calls on a new ReportGenerator.
AssembleStage(l, fault, session_id, filename) ==
    Stage(l, "assemble", fault,
          [l EXCEPT !.report =
              add_recommendations(
                add_executive_summary(
                  add_insights(
                    add_visualizations(
                      add_statistics(
                        add_data_quality(
                          add_dataset_overview(
                            NewReport(session_id, filename), l.profile),
                          <<"CLEANING_SUMMARY">>),
                        l.profile),
                      l.charts),
                    l.insights),
                  l.exec_summary),
                l.recommendations)])

\* STEP 1: "if df is None or df.empty: raise ValueError".
UnloadableNoneOnly(df) == df = None

Unloadable(df) == df = None \/ df = <<"empty">>

FailReturningTrue(r, l) ==
    /\ db' = update_session_status(db, agent[r].session, "error")
    /\ agent' = [agent EXCEPT ![r] =
                   [@ EXCEPT !.pc = "done", !.raised = l.raised,
                             !.ran = l.ran, !.result = "True",
                             !.statusSet = Append(@, "error")]]

\* The except clause: the status becomes error and False is returned.
Fail(r, l) ==
    /\ db' = update_session_status(db, agent[r].session, "error")
    /\ agent' = [agent EXCEPT ![r] =
                   [@ EXCEPT !.pc = "done", !.raised = l.raised,
                             !.ran = l.ran, !.result = "False",
                             !.statusSet = Append(@, "error")]]

StartAnalysisUnchecked(r, s) ==
    /\ agent[r].pc = "idle"
    /\ IF r = 1 THEN TRUE ELSE agent[r - 1].pc # "idle"
    /\ db' = update_session_status(db, s, "analyzing")
    /\ agent' = [agent EXCEPT ![r] =
                   [@ EXCEPT !.pc = "load", !.session = s,
                             !.filename = get_session(db, s).filename,
                             !.statusSet = <<"analyzing">>]]
    /\ UNCHANGED <<store, unwritable, an, cc, cl, rg, pr>>

\* start_analysis: Agent(session_id), then run_analysis up to the status
\* update.  An unknown session returns False at once.
StartAnalysis(r, s) ==
    /\ agent[r].pc = "idle"
    /\ IF r = 1 THEN TRUE ELSE agent[r - 1].pc # "idle"
    /\ LET session_info == get_session(db, s)
       IN  IF ~session_info.exists
           THEN /\ agent' = [agent EXCEPT ![r] =
                               [@ EXCEPT !.pc = "done", !.session = s,
                                         !.result = "False"]]
                /\ db' = db
           ELSE /\ db' = update_session_status(db, s, "analyzing")
                /\ agent' = [agent EXCEPT ![r] =
                               [@ EXCEPT !.pc = "load", !.session = s,
                                         !.filename = session_info.filename,
                                         !.statusSet = <<"analyzing">>]]
    /\ UNCHANGED <<store, unwritable, an, cc, cl, rg, pr>>

\* STEP 1 and STEP 2: load the dataset, clean it, save the cleaned frame.
LoadAndClean(r) ==
    /\ agent[r].pc = "load"
    /\ LET s == agent[r].session
           df == load_dataframe(agent[r].filename, store[s].upload)
           l0 == Locals(agent[r])
           writeRaises == "cleaned" \in unwritable
       IN  \E fault \in {"none", "clean"} :
             LET l1 == Stage(l0, "load",
                             IF Unloadable(df) THEN "load" ELSE "none",
                             l0)
                 l2 == Stage(l1, "clean", fault, l1)
             IN  IF Aborted(l2)
                 THEN \* a load failure leaves the cleaner unused: one
                      \* choice of its outcome stands for all
                      /\ l2.raised = "load" => fault = "none"
                      /\ Fail(r, l2)
                      /\ store' = store
                 ELSE /\ store' = save_dataframe(store, s, writeRaises)
                      /\ db' = db
                      /\ agent' = [agent EXCEPT ![r] =
                           [@ EXCEPT !.pc = "analyse", !.ran = l2.ran,
                                     !.raised = l2.raised,
                                     !.cleanedSaved = store'[s].cleaned]]
    /\ UNCHANGED <<unwritable, an, cc, cl, rg, pr>>

\* STEP 3 to STEP 6: profile, charts, narrative, report.
Analyse(r) ==
    /\ agent[r].pc = "analyse"
    /\ \E fault \in {"none", "profile", "chart", "narrate", "assemble"},
          ng \in NgBehaviours :
         LET s == agent[r].session
             l == AssembleStage(
                    NarrateStage(
                      ChartStage(
                        ProfileStage(Locals(agent[r]), fault), fault, ng),
                      fault, ng),
                    fault, s, agent[r].filename)
         IN  IF Aborted(l)
             THEN \* the answers are lost with the locals: one stands for all
                  /\ ng = NgIdle
                  /\ Fail(r, l)
             ELSE /\ db' = db
                  /\ agent' = [agent EXCEPT ![r] =
                       [@ EXCEPT !.pc = "persist", !.ran = l.ran,
                                 !.raised = l.raised,
                                 !.ngFailed = NgFailed(ng),
                                 !.execFailed = ExecFailed(ng),
                                 !.charts = l.charts,
                                 !.insights = l.insights,
                                 !.report = l.report]]
    /\ UNCHANGED <<store, unwritable, an, cc, cl, rg, pr>>


\* The four save_analysis_result calls of STEP 7, in the order the code
\* makes them; `raises` are the result types whose write fails.
PersistAll(st, session_id, a, raises) ==
    save_analysis_result(
      save_analysis_result(
        save_analysis_result(
          save_analysis_result(st, session_id, "profile", <<"PROFILE">>,
                               "profile" \in raises),
          session_id, "charts", a.charts, "charts" \in raises),
        session_id, "insights", a.insights, "insights" \in raises),
      session_id, "report", a.report, "report" \in raises)

\* STEP 7: persist the profile, the charts, the insights and the report.
Persist(r) ==
    /\ agent[r].pc = "persist"
    /\ LET raises == unwritable \cap ResultTypes
       IN  /\ store' = PersistAll(store, agent[r].session, agent[r], raises)
           /\ agent' = [agent EXCEPT ![r] =
                          [@ EXCEPT !.pc = "complete",
                                    !.ran = Append(@, "persist"),
                                    !.wrote = ResultTypes \ raises]]
    /\ UNCHANGED <<db, unwritable, an, cc, cl, rg, pr>>

\* STEP 8: mark the session completed and return True.
MarkCompleted(r) ==
    /\ agent[r].pc = "complete"
    /\ db' = update_session_status(db, agent[r].session, "completed")
    /\ agent' = [agent EXCEPT ![r] =
                   [@ EXCEPT !.pc = "done", !.result = "True",
                             !.statusSet = Append(@, "completed")]]
    /\ UNCHANGED <<store, unwritable, an, cc, cl, rg, pr>>

-----------------------------------------------------------------------------
(* app.py: upload_file                                                     *)

\* The files a client uploads: a name and what the bytes hold.
UploadInputs ==
    {[name |-> <<"data", ".", "csv">>, content |-> "rows"],
     [name |-> <<"data", ".", "csv">>, content |-> "norows"],
     [name |-> <<"data", ".", "csv">>, content |-> "garbage"],
     [name |-> <<"NON_ASCII", ".", "csv">>, content |-> "rows"],
     [name |-> <<"notes", ".", "txt">>, content |-> "rows"]}

\* uuid.uuid4(): an id no session has; here the first unused one.
HasFreshId == \E s \in Sessions : ~db[s].exists
FreshId == CHOOSE s \in Sessions : ~db[s].exists

\* Storage.save_upload: the file goes to the session directory under its
\* secured name and a row with status uploaded is inserted.
save_upload(file, session_id) ==
    /\ db' = [db EXCEPT ![session_id] =
                [exists |-> TRUE, filename |-> secure_filename(file.name),
                 status |-> "uploaded"]]
    /\ store' = [store EXCEPT ![session_id].upload = file.content]

\* upload_file: a file whose extension is not allowed is refused (400).
UploadFile(file) ==
    /\ HasFreshId
    /\ IF allowed_file(file.name)
       THEN save_upload(file, FreshId)
       ELSE UNCHANGED <<db, store>>
    /\ UNCHANGED <<agent, unwritable, an, cc, cl, rg, pr>>

-----------------------------------------------------------------------------
(* DataAnalyzer.analyze, slot by slot.                                     *)

\* Bounds on the frames analyze is given.
MaxNumericCols == 2
MaxCategoricalCols == 1

\* Column names: "n", "nn", ... and "c", "cc", ...
ColName(letter, i) == [j \in 1..i |-> letter]
Cols(letter, n) == [i \in 1..n |-> ColName(letter, i)]

\* What the Narrative Generator answers a chart request with.
ChartAnswers ==
    Failing \cup {HttpOk(GoodCode), HttpOk(BadCode), HttpOk(FenceOnly),
                  HttpOk(DropCode)}

AnalyzerEnvs ==
    {[numeric_cols |-> Cols("n", n), categorical_cols |-> Cols("c", c),
      heatmap |-> h1, relationship |-> h5, renderRaises |-> rr] :
        n \in 0..MaxNumericCols, c \in 0..MaxCategoricalCols,
        h1 \in ChartAnswers, h5 \in ChartAnswers,
        rr \in SUBSET {"hist", "bar", "box"}}

AnIdle ==
    [pc |-> "idle", count |-> 0, charts |-> <<>>, df |-> {},
     env |-> [numeric_cols |-> <<>>, categorical_cols |-> <<>>,
              heatmap |-> HttpException, relationship |-> HttpException,
              renderRaises |-> {}]]

AnState == [count |-> an.count, charts |-> an.charts, df |-> an.df]

AnStep(from, to, a) ==
    /\ an.pc = from
    /\ an' = [an EXCEPT !.pc = to, !.count = a.count, !.charts = a.charts,
                        !.df = a.df]
    /\ UNCHANGED <<db, store, agent, unwritable, cc, cl, rg, pr>>

AnalyzeHeatmap == AnStep("slot1", "slot2", HeatmapSlot(AnState, an.env))
AnalyzeHistogram == AnStep("slot2", "slot3", HistogramSlot(AnState, an.env))
AnalyzeBar == AnStep("slot3", "slot4", BarSlot(AnState, an.env))
AnalyzeBoxplot == AnStep("slot4", "slot5", BoxplotSlot(AnState, an.env))
AnalyzeRelationship ==
    AnStep("slot5", "return", RelationshipSlot(AnState, an.env))
AnalyzeReturn == AnStep("return", "returned", AnState)

-----------------------------------------------------------------------------
(* core/analyzer.py: create_custom_chart; app.py: generate_custom_chart     *)

\* DataAnalyzer.create_custom_chart: asks for an instruction, runs it and
\* answers {'filename', 'code'} (ok) or None (not ok).
create_custom_chart(charts, http, x_col, y_col, chart_type) ==
    LET cols == IF Truthy(y_col) THEN x_col \o <<", ">> \o y_col ELSE x_col
        code == generate_chart_code(http)
        filename == Replace(<<"custom_">> \o x_col \o <<"_">> \o chart_type
                              \o <<".png">>, " ", <<"_">>)
    IN  IF Truthy(code)
        THEN LET r == _execute_plot_code(charts, code,
                                         chart_type \o <<" of ">> \o cols,
                                         RemoveTok(filename, ".png"))
             IN  [ok |-> r.ok, filename |-> filename, code |-> code,
                  charts |-> r.charts]
        ELSE [ok |-> FALSE, filename |-> <<>>, code |-> <<>>,
              charts |-> charts]

\* Bound on the generate_custom_chart requests.
MaxRequests == 2
Requests == 1..MaxRequests

NoChart == [type |-> "none", title |-> <<>>, filename |-> <<>>, code |-> <<>>]

\* A generate_custom_chart request and the position of its handler.
\* `before` is the persisted list when the request arrived, `read` what the
\* handler read, `after` the persisted list when it answered.
RequestIdle ==
    [pc |-> "idle", session |-> "None", before |-> <<>>, read |-> <<>>,
     chart |-> NoChart, success |-> FALSE, after |-> <<>>]

\* No generate_custom_chart request has been made.
CcIdle == [q \in Requests |-> RequestIdle]

\* json.loads(charts_str) if charts_str else []: the chart records hold
\* texts only, so reading back gives the list that was written.
PersistedCharts(st, session_id) ==
    IF has_analysis_result(st, session_id, "charts")
    THEN st[session_id].charts ELSE <<>>

\* What a client asks a custom chart of: x_col, y_col, chart_type.
CustomInputs ==
    {[x_col |-> <<"n">>, y_col |-> None, chart_type |-> <<"Auto">>],
     [x_col |-> <<"n">>, y_col |-> <<"nn">>,
      chart_type |-> <<"Scatter", " ", "Plot">>],
     [x_col |-> <<"unit", " ", "price">>, y_col |-> None,
      chart_type |-> <<"Bar", " ", "Chart">>],
     [x_col |-> <<"unit", "\t", "price">>, y_col |-> None,
      chart_type |-> <<"Auto">>],
     [x_col |-> <<"price", "/", "unit">>, y_col |-> None,
      chart_type |-> <<"Auto">>]}

CustomAnswers == {HttpException, HttpOk(GoodCode), HttpOk(BadCode)}

Answer(q, session_id, success) ==
    cc' = [cc EXCEPT ![q] = [@ EXCEPT !.pc = "done", !.session = session_id,
                                      !.success = success]]

\* generate_custom_chart up to and including the reading of the persisted
\* chart list.  readRaises: get_analysis_result catches an error while
\* reading and returns None.
CustomChartRequest(q, s, in, http, readRaises) ==
    /\ cc[q].pc = "idle"
    /\ IF q = 1 THEN TRUE ELSE cc[q - 1].pc # "idle"
    /\ LET session_info == get_session(db, s)
           df == IF store[s].cleaned THEN <<"frame">>
                 ELSE load_dataframe(session_info.filename, store[s].upload)
           r == create_custom_chart(<<>>, http, in.x_col, in.y_col,
                                    in.chart_type)
       IN  IF ~session_info.exists THEN Answer(q, s, FALSE)
           ELSE IF Unloadable(df) THEN Answer(q, s, FALSE)
           ELSE IF r.ok /\ r.charts # <<>>
           THEN cc' = [cc EXCEPT ![q] =
                         [@ EXCEPT !.pc = "save", !.session = s,
                                   !.before = PersistedCharts(store, s),
                                   !.read = IF readRaises THEN <<>>
                                            ELSE PersistedCharts(store, s),
                                   !.chart = r.charts[Len(r.charts)]]]
           ELSE Answer(q, s, FALSE)
    /\ UNCHANGED <<db, store, agent, unwritable, an, cl, rg, pr>>

CustomChartSaveIntoInsights(q) ==
    /\ cc[q].pc = "save"
    /\ store' = save_analysis_result(
                    save_analysis_result(store, cc[q].session, "charts",
                                         Append(cc[q].read, cc[q].chart),
                                         "charts" \in unwritable),
                    cc[q].session, "insights", <<"chart">>, FALSE)
    /\ cc' = [cc EXCEPT ![q] =
                [@ EXCEPT !.pc = "done", !.success = TRUE,
                          !.after = PersistedCharts(store', cc[q].session)]]
    /\ UNCHANGED <<db, agent, unwritable, an, cl, rg, pr>>

\* generate_custom_chart: current_charts.append(new_chart), the list is
\* saved back and success is answered.
CustomChartSave(q) ==
    /\ cc[q].pc = "save"
    /\ store' = save_analysis_result(store, cc[q].session, "charts",
                                     Append(cc[q].read, cc[q].chart),
                                     "charts" \in unwritable)
    /\ cc' = [cc EXCEPT ![q] =
                [@ EXCEPT !.pc = "done", !.success = TRUE,
                          !.after = PersistedCharts(store', cc[q].session)]]
    /\ UNCHANGED <<db, agent, unwritable, an, cl, rg, pr>>

\* The store a session has after its upload ("uploaded") and after a run
\* completed with the Narrative Generator answering as `ng`.
UploadedStore == [EmptyDir EXCEPT !.upload = "rows"]

CompletedStore(ng) ==
    PersistAll([s \in SessionIds |->
                   IF s \in Sessions
                   THEN [UploadedStore EXCEPT !.cleaned = TRUE]
                   ELSE EmptyDir],
               "s1",
               [charts |-> analyze([numeric_cols |-> FrameNumeric,
                                    categorical_cols |-> FrameCategorical,
                                    heatmap |-> ng.heatmap,
                                    relationship |-> ng.relationship,
                                    renderRaises |-> {}]),
                insights |-> generate_insights(ng.insights),
                report |-> NoReport],
               {})

-----------------------------------------------------------------------------
(* core/cleaner.py                                                         *)

\* A DataFrame: `columns` is the sequence of its columns, each with a label
\* and a dtype ("object" or "float64", standing for int64 and float64), and
\* `rows` the sequence of its rows, each a sequence of cells.  A cell is
\* <<kind, v>>: "num" a number (v is twice its value, so that a median of
\* two integers is exact), "numstr" a text that reads as the number v / 2,
\* "text" any other text (v names it, in sorting order) and "nan" a missing
\* value.
NaN == <<"nan", 0>>
IsNa(cell) == cell[1] = "nan"

Column(df, j) == [i \in 1..Len(df.rows) |-> df.rows[i][j]]

\* The positions of `s` whose element satisfies Keep, in order.
RECURSIVE Positions(_, _)
Positions(n, keep) ==
    IF n = 0 THEN <<>>
    ELSE IF n \in keep THEN Append(Positions(n - 1, keep), n)
         ELSE Positions(n - 1, keep)

Pick(s, keep) ==
    LET at == Positions(Len(s), keep) IN [k \in 1..Len(at) |-> s[at[k]]]

\* The numbers of a sequence of cells, as a sorted sequence of their v.
RECURSIVE SortedInsert(_, _)
SortedInsert(s, x) ==
    IF s = <<>> THEN <<x>>
    ELSE IF x <= Head(s) THEN <<x>> \o s
         ELSE <<Head(s)>> \o SortedInsert(Tail(s), x)

RECURSIVE SortedValues(_)
SortedValues(cells) ==
    IF cells = <<>> THEN <<>>
    ELSE IF IsNa(Head(cells)) THEN SortedValues(Tail(cells))
         ELSE SortedInsert(SortedValues(Tail(cells)), Head(cells)[2])

\* Series.median(): the middle value, or the mean of the two middle values,
\* of the values that are not missing (as a cell; NaN when there is none).
Median(cells) ==
    LET v == SortedValues(cells)
        n == Len(v)
    IN  IF n = 0 THEN NaN
        ELSE IF n % 2 = 1 THEN <<"num", v[(n + 1) \div 2]>>
             ELSE <<"num", (v[n \div 2] + v[n \div 2 + 1]) \div 2>>

\* Series.mode()[0]: the most frequent value that is not missing, the first
\* in sorting order among equals (texts that read as numbers sort first).
Before(c, d) ==
    \/ c[1] = "numstr" /\ d[1] = "text"
    \/ c[1] = d[1] /\ c[2] < d[2]

Count(cells, c) == Cardinality({i \in 1..Len(cells) : cells[i] = c})

Mode(cells) ==
    LET present == {cells[i] : i \in {k \in 1..Len(cells) : ~IsNa(cells[k])}}
        top == {c \in present :
                   \A d \in present : Count(cells, d) <= Count(cells, c)}
    IN  IF present = {} THEN NaN
        ELSE CHOOSE c \in top : \A d \in top : d = c \/ Before(c, d)

\* Series.fillna(value)
FillNa(df, j, value) ==
    [df EXCEPT !.rows =
        [i \in 1..Len(df.rows) |->
            [df.rows[i] EXCEPT ![j] = IF IsNa(@) THEN value ELSE @]]]

\* pd.to_numeric(cell, errors='coerce')
ToNumeric(cell) ==
    IF cell[1] \in {"num", "numstr"} THEN <<"num", cell[2]>> ELSE NaN

\* An entry of the cleaning report: the step that wrote it, whether it is a
\* warning, and the number it reports.
Entry(step, warning, n) == [step |-> step, warning |-> warning, n |-> n]

\* A DataCleaner: self.df, self.cleaning_report, and `raised` once a step
\* has raised.
Cleaner(df, report) == [df |-> df, report |-> report, raised |-> FALSE]

\* DataCleaner._standardize_columns: every label becomes a text; the except
\* clause alone appends to the report.
_standardize_columns(c) ==
    [c EXCEPT !.df.columns =
        [j \in 1..Len(c.df.columns) |->
            [c.df.columns[j] EXCEPT !.label.kind = "str"]]]

\* DataCleaner._remove_duplicates: drop_duplicates keeps the first of equal
\* rows (missing values equal one another).
_remove_duplicates(c) ==
    LET rows == c.df.rows
        first == {i \in 1..Len(rows) : \A k \in 1..(i - 1) : rows[k] # rows[i]}
        kept == Pick(rows, first)
    IN  [c EXCEPT !.df.rows = kept,
                  !.report = Append(@, Entry("duplicates", FALSE,
                                             Len(rows) - Len(kept)))]

\* Two columns carry the same label, so that self.df[col] is a DataFrame,
\* which has no dtype attribute.
DuplicateLabels(df) ==
    \E j, k \in 1..Len(df.columns) :
        j # k /\ df.columns[j].label = df.columns[k].label

\* pd.to_numeric(self.df[col], errors='coerce') of column j, and whether
\* "non_null_count / total_count > 0.7" adopts it; the division by a zero
\* total raises inside the try and the column is passed over.
Coerced(df, j) == [i \in 1..Len(df.rows) |-> ToNumeric(df.rows[i][j])]

AdoptedFromSeventy(df, j) ==
    /\ df.columns[j].dtype = "object"
    /\ Len(df.rows) # 0
    /\ 10 * Cardinality({i \in 1..Len(df.rows) :
                            df.rows[i][j][1] \in {"num", "numstr"}})
           >= 7 * Len(df.rows)

Adopted(df, j) ==
    LET non_null_count ==
            Cardinality({i \in 1..Len(df.rows) : ~IsNa(Coerced(df, j)[i])})
        total_count == Len(df.rows)
    IN  /\ df.columns[j].dtype = "object"
        /\ total_count # 0
        /\ 10 * non_null_count > 7 * total_count

\* DataCleaner._fix_data_types: "self.df[col].dtype" is read outside the
\* try, so it raises on a frame with duplicate labels.
_fix_data_types(c) ==
    IF DuplicateLabels(c.df) THEN [c EXCEPT !.raised = TRUE]
    ELSE LET df == c.df
             changed == {j \in 1..Len(df.columns) : Adopted(df, j)}
         IN  [c EXCEPT
                !.df.columns =
                    [j \in 1..Len(df.columns) |->
                        IF j \in changed
                        THEN [df.columns[j] EXCEPT !.dtype = "float64"]
                        ELSE df.columns[j]],
                !.df.rows =
                    [i \in 1..Len(df.rows) |->
                        [j \in 1..Len(df.columns) |->
                            IF j \in changed THEN ToNumeric(df.rows[i][j])
                            ELSE df.rows[i][j]]],
                !.report = Append(@, Entry("types", FALSE,
                                           Cardinality(changed)))]

\* The text written into a text column that has no mode.
Unknown == <<"text", 0>>

Missing(df, j) == {i \in 1..Len(df.rows) : IsNa(df.rows[i][j])}

KeptAsIsFromHalf(df, j) ==
    100 * Cardinality({i \in 1..Len(df.rows) : df.rows[i][j][1] = "nan"})
        >= 50 * Len(df.rows)

\* "missing_pct > 50": the column is noted and kept as it is.
KeptAsIs(df, j) ==
    100 * Cardinality(Missing(df, j)) > 50 * Len(df.rows)

\* One column of _handle_missing_values: the median for a numeric column,
\* the mode (or 'Unknown') for any other.
HandleColumn(df, j) ==
    IF Missing(df, j) = {} \/ KeptAsIs(df, j) THEN df
    ELSE IF df.columns[j].dtype = "float64"
         THEN FillNa(df, j, Median(Column(df, j)))
         ELSE IF Mode(Column(df, j)) = NaN
              THEN FillNa(df, j, Unknown)
              ELSE FillNa(df, j, Mode(Column(df, j)))

RECURSIVE HandleColumns(_, _)
HandleColumns(df, j) ==
    IF j = 0 THEN df ELSE HandleColumn(HandleColumns(df, j - 1), j)

\* DataCleaner._handle_missing_values
_handle_missing_values(c) ==
    LET noted == {j \in 1..Len(c.df.columns) : Missing(c.df, j) # {}}
    IN  [c EXCEPT !.df = HandleColumns(c.df, Len(c.df.columns)),
                  !.report = Append(@, Entry("missing", FALSE,
                                             Cardinality(noted)))]

\* DataCleaner._remove_empty: the rows, then the columns, whose every cell
\* is missing; the report gets an entry only when something was removed.
_remove_empty(c) ==
    LET df == c.df
        width == 1..Len(df.columns)
        fullRows == {i \in 1..Len(df.rows) :
                        \E j \in width : ~IsNa(df.rows[i][j])}
        rows == Pick(df.rows, fullRows)
        fullCols == {j \in width : \E i \in 1..Len(rows) : ~IsNa(rows[i][j])}
        empty_rows == Len(df.rows) - Len(rows)
        empty_cols == Len(df.columns) - Cardinality(fullCols)
    IN  [c EXCEPT
           !.df = [columns |-> Pick(df.columns, fullCols),
                   rows |-> [i \in 1..Len(rows) |-> Pick(rows[i], fullCols)]],
           !.report = IF empty_rows > 0 \/ empty_cols > 0
                      THEN Append(@, Entry("empty", FALSE,
                                           empty_rows + empty_cols))
                      ELSE @]

\* Series.quantile(num / 4) with linear interpolation, times 4, of a sorted
\* non-empty sequence.
Quantile4(v, num) ==
    LET pos4 == (Len(v) - 1) * num
        lo == pos4 \div 4 + 1
    IN  IF pos4 % 4 = 0 THEN 4 * v[lo]
        ELSE 4 * v[lo] + (pos4 % 4) * (v[lo + 1] - v[lo])

\* The cells of a numeric column outside [Q1 - 1.5 IQR, Q3 + 1.5 IQR].
Outliers(cells) ==
    LET v == SortedValues(cells)
        Q1 == Quantile4(v, 1)
        Q3 == Quantile4(v, 3)
        lower8 == 2 * Q1 - 3 * (Q3 - Q1)
        upper8 == 2 * Q3 + 3 * (Q3 - Q1)
    IN  IF v = <<>> THEN {}
        ELSE {i \in 1..Len(cells) :
                 /\ ~IsNa(cells[i])
                 /\ (8 * cells[i][2] < lower8 \/ 8 * cells[i][2] > upper8)}

\* DataCleaner._detect_outliers: reports, never removes.
_detect_outliers(c) ==
    LET flagged == {j \in 1..Len(c.df.columns) :
                       /\ c.df.columns[j].dtype = "float64"
                       /\ Outliers(Column(c.df, j)) # {}}
    IN  [c EXCEPT !.report = Append(@, Entry("outliers", flagged # {},
                                             Cardinality(flagged)))]

\* The six steps of DataCleaner.clean, in order.
CleanSteps ==
    <<"columns", "duplicates", "types", "missing", "empty", "outliers">>

RunStep(step, c) ==
    CASE step = "columns" -> _standardize_columns(c)
      [] step = "duplicates" -> _remove_duplicates(c)
      [] step = "types" -> _fix_data_types(c)
      [] step = "missing" -> _handle_missing_values(c)
      [] step = "empty" -> _remove_empty(c)
      [] step = "outliers" -> _detect_outliers(c)

\* DataCleaner.clean: the steps are called one after the other with no try
\* around them, so a step that raises ends clean.
RECURSIVE CleanFrom(_, _)
CleanFrom(k, c) ==
    IF k > Len(CleanSteps) \/ c.raised THEN c
    ELSE CleanFrom(k + 1, RunStep(CleanSteps[k], c))

clean(df) == CleanFrom(1, Cleaner(df, <<>>))

get_cleaning_summary_swapped(original_df, c) ==
    [original_rows |-> Len(c.df.rows),
     original_cols |-> Len(c.df.columns),
     cleaned_rows |-> Len(original_df.rows),
     cleaned_cols |-> Len(original_df.columns),
     report |-> c.report]

\* DataCleaner.get_cleaning_summary
get_cleaning_summary(original_df, c) ==
    [original_rows |-> Len(original_df.rows),
     original_cols |-> Len(original_df.columns),
     cleaned_rows |-> Len(c.df.rows),
     cleaned_cols |-> Len(c.df.columns),
     report |-> c.report]

-----------------------------------------------------------------------------
(* core/profiler.py                                                        *)

\* The frame DataProfiler is given, as far as _classify_columns reads it:
\* `rows` is len(self.df) and `columns` the sequence of its columns, each
\* with its label, its dtype and self.df[col].nunique().
Dtypes == {"int64", "float64", "uint64", "bool", "object", "datetime64[ns]"}

\* The dtypes numpy counts as numbers (np.number), the ones analyze selects
\* its numeric columns by.
NumericDtypes == {"int64", "float64", "uint64"}

\* "unique_count < 10 and unique_count < len(self.df) * 0.05"; the product
\* is exact for the row counts of the model, so that u < rows * 0.05 is
\* 20 * u < rows.
FewUnique(unique_count, rows) ==
    unique_count < 10 /\ 20 * unique_count < rows

\* The three lists of _classify_columns.
NoColumns == [numeric |-> <<>>, categorical |-> <<>>, datetime |-> <<>>]

\* One iteration of the loop of _classify_columns.
ClassifyIntoBoth(lists, col, rows) ==
    IF col.dtype \in {"int64", "float64"}
    THEN IF col.nunique < 10 /\ 20 * col.nunique < rows
         THEN [lists EXCEPT !.categorical = Append(@, col.label),
                            !.numeric = Append(@, col.label)]
         ELSE [lists EXCEPT !.numeric = Append(@, col.label)]
    ELSE IF col.dtype = "datetime64[ns]"
         THEN [lists EXCEPT !.datetime = Append(@, col.label)]
         ELSE [lists EXCEPT !.categorical = Append(@, col.label)]

Classify(lists, col, rows) ==
    IF col.dtype \in {"int64", "float64"}
    THEN IF FewUnique(col.nunique, rows)
         THEN [lists EXCEPT !.categorical = Append(@, col.label)]
         ELSE [lists EXCEPT !.numeric = Append(@, col.label)]
    ELSE IF col.dtype = "datetime64[ns]"
         THEN [lists EXCEPT !.datetime = Append(@, col.label)]
         ELSE [lists EXCEPT !.categorical = Append(@, col.label)]

\* DataProfiler._classify_columns
RECURSIVE ClassifyFrom(_, _, _)
ClassifyFrom(k, lists, df) ==
    IF k > Len(df.columns) THEN lists
    ELSE ClassifyFrom(k + 1, Classify(lists, df.columns[k], df.rows), df)

_classify_columns(df) == ClassifyFrom(1, NoColumns, df)

\* DataProfiler._get_basic_info
_get_basic_info(df) ==
    [total_rows |-> df.rows,
     total_columns |-> Len(df.columns),
     total_cells |-> df.rows * Len(df.columns),
     column_names |-> [j \in 1..Len(df.columns) |-> df.columns[j].label]]

-----------------------------------------------------------------------------
(* The parts of the state a specification leaves alone.                    *)


\* No DataCleaner has been constructed.
ClIdle ==
    [pc |-> "idle", k |-> 0, original |-> [columns |-> <<>>, rows |-> <<>>],
     c |-> Cleaner([columns |-> <<>>, rows |-> <<>>], <<>>)]

\* No DataProfiler has been constructed.
PrIdle == [pc |-> "idle"]

\* No ReportGenerator is being driven on its own.
RgIdle == [pc |-> "idle", report |-> NoReport, calls |-> 0]

-----------------------------------------------------------------------------
(* Specifications.                                                         *)

Init ==
    /\ pr = PrIdle
    /\ db = [s \in SessionIds |-> NoRow]
    /\ store = [s \in SessionIds |-> EmptyDir]
    /\ agent = [r \in Runs |-> AgentIdle]
    /\ unwritable \in WriteFaults
    /\ an = AnIdle
    /\ cc = CcIdle
    /\ cl = ClIdle
    /\ rg = RgIdle

Next ==
    \/ \E file \in UploadInputs : UploadFile(file)
    \/ \E r \in Runs, s \in SessionIds : StartAnalysis(r, s)
    \/ \E r \in Runs : LoadAndClean(r)
    \/ \E r \in Runs : Analyse(r)
    \/ \E r \in Runs : Persist(r)
    \/ \E r \in Runs : MarkCompleted(r)

\* The sessions, their runs and the result store.
Spec == Init /\ [][Next]_vars

InitAnalyze ==
    /\ pr = PrIdle
    /\ db = [s \in SessionIds |-> NoRow]
    /\ store = [s \in SessionIds |-> EmptyDir]
    /\ agent = [r \in Runs |-> AgentIdle]
    /\ unwritable = {}
    /\ cc = CcIdle
    /\ cl = ClIdle
    /\ rg = RgIdle
    /\ \E env \in AnalyzerEnvs :
         an = [pc |-> "slot1", count |-> AnalyzerInit(env).count,
               charts |-> AnalyzerInit(env).charts,
               df |-> AnalyzerInit(env).df, env |-> env]

NextAnalyze ==
    \/ AnalyzeHeatmap
    \/ AnalyzeHistogram
    \/ AnalyzeBar
    \/ AnalyzeBoxplot
    \/ AnalyzeRelationship
    \/ AnalyzeReturn

\* The seven add_* operations, named by the section they write, in the
\* order run_analysis calls them.
SectionOps ==
    <<"dataset_overview", "data_quality", "statistics", "visualizations",
      "insights", "executive_summary", "recommendations">>

\* Calling the add_* operation `op` with `arg`.
Apply(op, report, arg) ==
    CASE op = "dataset_overview" -> add_dataset_overview(report, arg)
      [] op = "data_quality" -> add_data_quality(report, arg)
      [] op = "statistics" -> add_statistics(report, arg)
      [] op = "visualizations" -> add_visualizations(report, arg)
      [] op = "insights" -> add_insights(report, arg)
      [] op = "executive_summary" -> add_executive_summary(report, arg)
      [] op = "recommendations" -> add_recommendations(report, arg)

\* The arguments an add_* operation is called with: two profiles, summaries
\* or texts, and for add_visualizations two chart lists.
ArgsOf(op) ==
    IF op = "visualizations"
    THEN {<<>>, _save_plot(<<>>, <<"Box Plot Distribution">>,
                           <<"boxplot_comparison">>, <<"boxplot">>)}
    ELSE {<<"A">>, <<"B">>}

\* Bound on the add_* calls made on one ReportGenerator.
MaxCalls == 3

\* One add_* call, in any order and with any repetition.
AddSection(op, arg) ==
    /\ rg.pc = "building"
    /\ rg.calls < MaxCalls
    /\ rg' = [rg EXCEPT !.report = Apply(op, rg.report, arg),
                        !.calls = rg.calls + 1]
    /\ UNCHANGED <<db, store, agent, unwritable, an, cc, cl, pr>>

InitReport ==
    /\ pr = PrIdle
    /\ db = [s \in SessionIds |-> NoRow]
    /\ store = [s \in SessionIds |-> EmptyDir]
    /\ agent = [r \in Runs |-> AgentIdle]
    /\ unwritable = {}
    /\ an = AnIdle
    /\ cc = CcIdle
    /\ cl = ClIdle
    /\ rg = [pc |-> "building",
             report |-> NewReport("s1", <<"data", ".", "csv">>),
             calls |-> 0]

NextReport ==
    \E i \in 1..Len(SectionOps) : \E arg \in ArgsOf(SectionOps[i]) :
        AddSection(SectionOps[i], arg)

\* A ReportGenerator whose add_* operations are called in every order.
SpecReport == InitReport /\ [][NextReport]_vars

\* Bound on the rows of the frames the cleaner is given cell by cell.
MaxRows == 2

Widths == {1, 2}

\* The cells a numeric column and a text column are read with.
NumericCells == {<<"num", 2>>, <<"num", 4>>, NaN}
ObjectCells == {<<"text", 1>>, <<"numstr", 2>>, NaN}

\* The labels of a frame of `w` columns: texts, or (a spreadsheet header
\* holding the number 1 and the text "1") labels that differ only in kind.
LabelSets(w) ==
    IF w = 1 THEN {<<[kind |-> "str", text |-> "a"]>>}
    ELSE {<<[kind |-> "str", text |-> "a"], [kind |-> "str", text |-> "b"]>>,
          <<[kind |-> "int", text |-> "1"], [kind |-> "str", text |-> "1"]>>}

\* The columns load_dataframe reads: numeric ones, and text ones, which
\* hold at least one text.
ColumnsOf(h) ==
    {[dtype |-> "float64", cells |-> cells] :
        cells \in [1..h -> NumericCells]}
    \cup {[dtype |-> "object", cells |-> cells] :
             cells \in {f \in [1..h -> ObjectCells] :
                           \E i \in 1..h : ~IsNa(f[i])}}

Frame(labels, cols, h) ==
    [columns |-> [j \in 1..Len(cols) |->
                     [label |-> labels[j], dtype |-> cols[j].dtype]],
     rows |-> [i \in 1..h |-> [j \in 1..Len(cols) |-> cols[j].cells[i]]]]

SmallFrames ==
    UNION {{Frame(labels, cols, h) :
               labels \in LabelSets(w), cols \in [1..w -> ColumnsOf(h)]} :
           w \in Widths, h \in 1..MaxRows}

\* One text column of ten rows of which `k` read as numbers, and one numeric
\* column with a far value.
TallText(k) ==
    Frame(<<[kind |-> "str", text |-> "a"]>>,
          <<[dtype |-> "object",
             cells |-> [i \in 1..10 |-> IF i <= k THEN <<"numstr", 2 * i>>
                                        ELSE <<"text", i>>]]>>, 10)

TallNumeric ==
    Frame(<<[kind |-> "str", text |-> "a"]>>,
          <<[dtype |-> "float64",
             cells |-> <<<<"num", 2>>, <<"num", 4>>, <<"num", 6>>, NaN,
                         <<"num", 200>>>>]>>, 5)

TallFrames == {TallText(k) : k \in {6, 7, 8}} \cup {TallNumeric}

\* One step of clean on the DataCleaner of the state.
CleanStep(step) ==
    /\ cl.pc = "cleaning"
    /\ cl.k <= Len(CleanSteps)
    /\ CleanSteps[cl.k] = step
    /\ LET c == RunStep(step, cl.c)
       IN  cl' = [cl EXCEPT !.c = c, !.k = cl.k + 1,
                            !.pc = IF c.raised THEN "raised" ELSE "cleaning"]
    /\ UNCHANGED <<db, store, agent, unwritable, an, cc, rg, pr>>

StandardizeColumns == CleanStep("columns")
RemoveDuplicates == CleanStep("duplicates")
FixDataTypes == CleanStep("types")
HandleMissingValues == CleanStep("missing")
RemoveEmpty == CleanStep("empty")
DetectOutliers == CleanStep("outliers")

\* clean: return self.df, self.cleaning_report
CleanReturn ==
    /\ cl.pc = "cleaning"
    /\ cl.k > Len(CleanSteps)
    /\ cl' = [cl EXCEPT !.pc = "returned"]
    /\ UNCHANGED <<db, store, agent, unwritable, an, cc, rg, pr>>

InitCleaner ==
    /\ pr = PrIdle
    /\ db = [s \in SessionIds |-> NoRow]
    /\ store = [s \in SessionIds |-> EmptyDir]
    /\ agent = [r \in Runs |-> AgentIdle]
    /\ unwritable = {}
    /\ an = AnIdle
    /\ cc = CcIdle
    /\ rg = RgIdle
    /\ \E df \in SmallFrames \cup TallFrames :
         cl = [pc |-> "cleaning", k |-> 1, original |-> df,
               c |-> Cleaner(df, <<>>)]

NextCleaner ==
    \/ StandardizeColumns
    \/ RemoveDuplicates
    \/ FixDataTypes
    \/ HandleMissingValues
    \/ RemoveEmpty
    \/ DetectOutliers
    \/ CleanReturn

\* DataCleaner(df).clean() on every small frame and on the tall ones.
SpecCleaner == InitCleaner /\ [][NextCleaner]_vars

\* Bound on the columns of the frames the profiler is given.
MaxProfileCols == 2

\* The row counts and unique-value counts of those frames: around the
\* thresholds of 10 unique values and of 5% of the rows.
RowCounts == {20, 21, 50, 200, 1000}
UniqueCounts == {1, 8, 10}

ProfileColumns(w) ==
    {cols \in [1..w -> [label : {"a", "b", "c"}, dtype : Dtypes,
                        nunique : UniqueCounts]] :
        \A j \in 1..w : cols[j].label = <<"a", "b", "c">>[j]}

ProfileFrames ==
    {[rows |-> rows, columns |-> cols] :
        rows \in RowCounts,
        cols \in UNION {ProfileColumns(w) : w \in 1..MaxProfileCols}}

\* generate_profile: self.profile['basic_info'] = self._get_basic_info()
GetBasicInfo ==
    /\ pr.pc = "basic_info"
    /\ pr' = [pr EXCEPT !.pc = "classify",
                        !.profile.basic_info = _get_basic_info(pr.df)]
    /\ UNCHANGED <<db, store, agent, unwritable, an, cc, cl, rg>>

\* _classify_columns: one iteration of "for col in self.df.columns".
ClassifyColumn ==
    /\ pr.pc = "classify"
    /\ pr.k <= Len(pr.df.columns)
    /\ pr' = [pr EXCEPT !.k = pr.k + 1,
                        !.lists = Classify(pr.lists, pr.df.columns[pr.k],
                                           pr.df.rows)]
    /\ UNCHANGED <<db, store, agent, unwritable, an, cc, cl, rg>>

\* _classify_columns returns its three lists, which generate_profile
\* stores as self.profile['column_types'].
ClassifyReturn ==
    /\ pr.pc = "classify"
    /\ pr.k > Len(pr.df.columns)
    /\ pr' = [pr EXCEPT !.pc = "classified",
                        !.profile.column_types = pr.lists]
    /\ UNCHANGED <<db, store, agent, unwritable, an, cc, cl, rg>>

InitProfiler ==
    /\ db = [s \in SessionIds |-> NoRow]
    /\ store = [s \in SessionIds |-> EmptyDir]
    /\ agent = [r \in Runs |-> AgentIdle]
    /\ unwritable = {}
    /\ an = AnIdle
    /\ cc = CcIdle
    /\ cl = ClIdle
    /\ rg = RgIdle
    /\ \E df \in ProfileFrames :
         pr = [pc |-> "basic_info", df |-> df, k |-> 1, lists |-> NoColumns,
               profile |-> [basic_info |-> _get_basic_info(
                                               [rows |-> 0, columns |-> <<>>]),
                            column_types |-> NoColumns]]

NextProfiler ==
    \/ GetBasicInfo
    \/ ClassifyColumn
    \/ ClassifyReturn

\* DataProfiler(df).generate_profile() up to its column types.
SpecProfiler == InitProfiler /\ [][NextProfiler]_vars

\* Two sessions, each with its upload saved, and the data written for them.
TwoSessions == {"s1", "s2"}

Statuses == {"analyzing", "completed", "error"}

ResultData(s, result_type) ==
    CASE result_type = "profile" -> <<"PROFILE", s>>
      [] result_type = "charts" -> _save_plot(<<>>, <<s>>, <<s>>, <<>>)
      [] result_type = "insights" -> <<"INSIGHTS", s>>
      [] result_type = "report" -> NewReport(s, <<"data", ".", "csv">>)

\* storage.update_session_status(s, status)
UpdateSessionStatus(s, status) ==
    /\ db' = update_session_status(db, s, status)
    /\ UNCHANGED <<store, agent, unwritable, an, cc, cl, rg, pr>>

\* storage.save_analysis_result(s, result_type, ...)
SaveAnalysisResult(s, result_type, writeRaises) ==
    /\ store' = save_analysis_result(store, s, result_type,
                                     ResultData(s, result_type), writeRaises)
    /\ UNCHANGED <<db, agent, unwritable, an, cc, cl, rg, pr>>

\* storage.save_dataframe(cleaned_df, s, 'cleaned')
SaveDataframe(s, writeRaises) ==
    /\ store' = save_dataframe(store, s, writeRaises)
    /\ UNCHANGED <<db, agent, unwritable, an, cc, cl, rg, pr>>

\* storage.clear_session_data(s)
ClearSessionData(s, removeRaises) ==
    /\ store' = clear_session_data(store, s, removeRaises)
    /\ UNCHANGED <<db, agent, unwritable, an, cc, cl, rg, pr>>

InitStore ==
    /\ pr = PrIdle
    /\ db = [s \in TwoSessions |->
                [exists |-> TRUE, filename |-> <<"data", ".", "csv">>,
                 status |-> "uploaded"]]
    /\ store = [s \in TwoSessions |-> [EmptyDir EXCEPT !.upload = "rows"]]
    /\ agent = [r \in Runs |-> AgentIdle]
    /\ unwritable = {}
    /\ an = AnIdle
    /\ cc = CcIdle
    /\ cl = ClIdle
    /\ rg = RgIdle

NextStore ==
    \/ \E s \in TwoSessions, status \in Statuses :
          UpdateSessionStatus(s, status)
    \/ \E s \in TwoSessions, result_type \in ResultTypes,
          writeRaises \in BOOLEAN :
          SaveAnalysisResult(s, result_type, writeRaises)
    \/ \E s \in TwoSessions, writeRaises \in BOOLEAN :
          SaveDataframe(s, writeRaises)
    \/ \E s \in TwoSessions, removeRaises \in BOOLEAN :
          ClearSessionData(s, removeRaises)

\* The Storage operations of two sessions, in every interleaving.
SpecStore == InitStore /\ [][NextStore]_vars

\* STEP 4 of a run whose Narrative Generator answers a chart request with an
\* instruction that never finishes: the run stays inside exec.
ExecNeverReturns(r) ==
    /\ agent[r].pc = "analyse"
    /\ \E http \in {HttpOk(LoopCode)} :
          /\ Truthy(generate_chart_code(http))
          /\ ~ExecReturns(generate_chart_code(http))
    /\ agent' = [agent EXCEPT ![r] =
                   [@ EXCEPT !.pc = "exec", !.ran = @ \o <<"profile">>]]
    /\ UNCHANGED <<db, store, unwritable, an, cc, cl, rg, pr>>

\* The steps of run r.
RunAnalysis(r) ==
    \/ \E s \in SessionIds : StartAnalysis(r, s)
    \/ LoadAndClean(r)
    \/ Analyse(r)
    \/ ExecNeverReturns(r)
    \/ Persist(r)
    \/ MarkCompleted(r)

InitLive ==
    /\ db = [s \in SessionIds |->
                IF s \in Sessions
                THEN [exists |-> TRUE, filename |-> <<"data", ".", "csv">>,
                      status |-> "uploaded"]
                ELSE NoRow]
    /\ \E content \in {"rows", "norows", "garbage"} :
          store = [s \in SessionIds |->
                      IF s \in Sessions
                      THEN [EmptyDir EXCEPT !.upload = content]
                      ELSE EmptyDir]
    /\ agent = [r \in Runs |-> AgentIdle]
    /\ unwritable \in WriteFaults
    /\ an = AnIdle
    /\ cc = CcIdle
    /\ cl = ClIdle
    /\ rg = RgIdle
    /\ pr = PrIdle

NextLive == \E r \in Runs : RunAnalysis(r)

\* The runs of an uploaded session, none of them terminated from outside:
\* a run that can take a step eventually takes one.
SpecLive ==
    InitLive /\ [][NextLive]_vars /\ \A r \in Runs : WF_vars(RunAnalysis(r))

\* new_analysis: storage.clear_session_data(session_id); the row of the
\* session in the sessions table stays as it is.
NewAnalysis(s, removeRaises) ==
    /\ db[s].exists
    /\ store' = clear_session_data(store, s, removeRaises)
    /\ UNCHANGED <<db, agent, unwritable, an, cc, cl, rg, pr>>

InitSession ==
    /\ db = [s \in SessionIds |-> NoRow]
    /\ store = [s \in SessionIds |-> EmptyDir]
    /\ agent = [r \in Runs |-> AgentIdle]
    /\ unwritable = {}
    /\ an = AnIdle
    /\ cc = CcIdle
    /\ cl = ClIdle
    /\ rg = RgIdle
    /\ pr = PrIdle

NextSession ==
    \/ \E file \in {f \in UploadInputs : f.content = "rows"} :
          UploadFile(file)
    \/ \E r \in Runs, s \in SessionIds : StartAnalysis(r, s)
    \/ \E r \in Runs : LoadAndClean(r)
    \/ \E r \in Runs : Analyse(r)
    \/ \E r \in Runs : Persist(r)
    \/ \E r \in Runs : MarkCompleted(r)
    \/ \E q \in Requests, s \in Sessions,
          in \in {i \in CustomInputs : i.chart_type = <<"Scatter", " ", "Plot">>},
          http \in {HttpException, HttpOk(GoodCode)} :
          CustomChartRequest(q, s, in, http, FALSE)
    \/ \E q \in Requests : CustomChartSave(q)
    \/ \E s \in Sessions : NewAnalysis(s, FALSE)

\* The requests a client makes on a session, in every order and
\* interleaving: upload, start_analysis, generate_custom_chart and
\* new_analysis; no write to the session directory fails.
SpecSession == InitSession /\ [][NextSession]_vars

InitCustom ==
    /\ pr = PrIdle
    /\ agent = [r \in Runs |-> AgentIdle]
    /\ unwritable \in {{}, {"charts"}}
    /\ an = AnIdle
    /\ cc = CcIdle
    /\ cl = ClIdle
    /\ rg = RgIdle
    /\ \/ /\ db = [s \in SessionIds |->
                     IF s \in Sessions
                     THEN [exists |-> TRUE, filename |-> <<"data", ".", "csv">>,
                           status |-> "uploaded"]
                     ELSE NoRow]
          /\ store = [s \in SessionIds |->
                        IF s \in Sessions THEN UploadedStore ELSE EmptyDir]
       \/ /\ db = [s \in SessionIds |->
                     IF s \in Sessions
                     THEN [exists |-> TRUE, filename |-> <<"data", ".", "csv">>,
                           status |-> "completed"]
                     ELSE NoRow]
          /\ \E ng \in {NgUp, NgIdle} : store = CompletedStore(ng)

NextCustom ==
    \/ \E q \in Requests, s \in SessionIds, in \in CustomInputs,
          http \in CustomAnswers, readRaises \in BOOLEAN :
          CustomChartRequest(q, s, in, http, readRaises)
    \/ \E q \in Requests : CustomChartSave(q)

\* generate_custom_chart requests on a session that was uploaded or whose
\* run completed.
SpecCustom == InitCustom /\ [][NextCustom]_vars

\* One call of DataAnalyzer.analyze on every frame shape, every answer of
\* the Narrative Generator and every rendering outcome.
SpecAnalyze == InitAnalyze /\ [][NextAnalyze]_vars

-----------------------------------------------------------------------------
(* Properties of the analysis pipeline (Spec).                             *)

\* The last status a run wrote to the session row.
LastStatus(r) == agent[r].statusSet[Len(agent[r].statusSet)]

StageIndex(name) == CHOOSE i \in 1..Len(Stages) : Stages[i] = name

\* A run_analysis call that has begun on a known session and not returned.
InProgress(r) == agent[r].pc \in {"load", "analyse", "persist", "complete"}

Returned(r) == agent[r].pc = "done" /\ agent[r].statusSet # <<>>

\* C1: a run sets the status completed only after every stage succeeded,
\* the writing of all four artifacts (profile, charts, insights, report)
\* included.
C1_CompletedOnlyAfterAllArtifactsWritten ==
    \A r \in Runs :
        "completed" \in Range(agent[r].statusSet) =>
            /\ agent[r].ran = Stages
            /\ agent[r].raised = "none"
            /\ agent[r].wrote = ResultTypes

\* C2: a stage that raises sets the status error and aborts the run: no
\* later stage executes, no artifact is persisted by the run, the status is
\* never set to completed, and False is returned.
C2_FailureAbortsTheRun ==
    \A r \in Runs :
        agent[r].raised # "none" =>
            /\ agent[r].pc = "done"
            /\ agent[r].result = "False"
            /\ agent[r].statusSet = <<"analyzing", "error">>
            /\ agent[r].ran = SubSeq(Stages, 1, StageIndex(agent[r].raised))
            /\ agent[r].wrote = {}

C2_Witness ==
    \E r \in Runs :
        /\ agent[r].raised = "chart"
        /\ agent[r].pc = "done"
        /\ db[agent[r].session].status = "error"

StatusTransitions ==
    {<<"none", "uploaded">>, <<"uploaded", "analyzing">>,
     <<"analyzing", "completed">>, <<"analyzing", "error">>}

\* C3: completed and error are terminal: once a session has either status no
\* step changes it, another start-analysis request included, and every
\* change of status is one of uploaded -> analyzing -> completed | error.
C3_CompletedAndErrorAreTerminal ==
    [][\A s \in Sessions :
         db'[s].status # db[s].status =>
             /\ db[s].status \notin {"completed", "error"}
             /\ <<db[s].status, db'[s].status>> \in StatusTransitions]_vars

\* C4: at most one run is in progress for a session at any time.
C4_AtMostOneRunInProgress ==
    \A r1, r2 \in Runs :
        (r1 # r2 /\ InProgress(r1) /\ InProgress(r2)) =>
            agent[r1].session # agent[r2].session

\* The stage that produces each artifact.
Producer ==
    [cleaned |-> "clean", profile |-> "profile", charts |-> "chart",
     insights |-> "narrate", report |-> "assemble"]

Produced(r, artifact) ==
    /\ Producer[artifact] \in Range(agent[r].ran)
    /\ agent[r].raised # Producer[artifact]

Stored(s, artifact) ==
    IF artifact = "cleaned" THEN store[s].cleaned
    ELSE artifact \in store[s].has

BadInput(s) ==
    /\ db[s].exists
    /\ \/ store[s].upload \in {"absent", "garbage"}
       \/ Ext(db[s].filename) \notin {<<"csv">>, <<"xlsx">>, <<"xls">>}
       \/ store[s].upload = "norows"

\* C6: a run on an input that is unreadable, of an unsupported format or
\* empty ends with status error, never sets completed, returns False, and
\* no report is persisted for the session.
C6_BadInputEndsInError ==
    \A s \in Sessions :
        BadInput(s) =>
            /\ db[s].status # "completed"
            /\ "report" \notin store[s].has
            /\ \A r \in Runs :
                  agent[r].session = s =>
                      /\ "completed" \notin Range(agent[r].statusSet)
                      /\ agent[r].wrote = {}
                      /\ Returned(r) =>
                            /\ agent[r].result = "False"
                            /\ agent[r].raised = "load"
                            /\ LastStatus(r) = "error"
            /\ ((\E r \in Runs : agent[r].session = s /\ Returned(r))
                  /\ (\A r \in Runs : agent[r].session = s => ~InProgress(r)))
                 => db[s].status = "error"

C6_Witness ==
    \E r \in Runs :
        /\ Returned(r)
        /\ store[agent[r].session].upload = "norows"
        /\ db[agent[r].session].status = "error"
        /\ agent[r].result = "False"

\* C7: when every Narrative Generator call of a run fails and the input
\* loads, the insights, the executive summary and the recommendations are
\* the fixed fallback texts, no chart instruction is returned (no chart of
\* type custom), and the run completes and returns True.
C7_NarrativeGeneratorDownStillCompletes ==
    /\ \A h \in Failing :
          /\ generate_insights(h) = _fallback_insights
          /\ generate_executive_summary(h) = _fallback_summary
          /\ generate_recommendations(h) = _fallback_recommendations
          /\ generate_chart_code(h) = None
    /\ \A r \in Runs :
          agent[r].ngFailed =>
              /\ agent[r].raised = "none"
              /\ agent[r].insights = _fallback_insights
              /\ Section(agent[r].report, "executive_summary").text
                    = _fallback_summary
              /\ Section(agent[r].report, "recommendations").text
                    = _fallback_recommendations
              /\ \A i \in 1..Len(agent[r].charts) :
                    agent[r].charts[i].type = "basic"
              /\ Returned(r) =>
                    /\ agent[r].result = "True"
                    /\ LastStatus(r) = "completed"

C7_Witness ==
    \E r \in Runs :
        /\ agent[r].ngFailed
        /\ Returned(r)
        /\ agent[r].result = "True"
        /\ db[agent[r].session].status = "completed"
        /\ Len(agent[r].charts) = 3

\* The file name of the chart an AI-suggested slot appends.
SlotFile ==
    [heatmap |-> <<"correlation_heatmap", ".png">>,
     relationship |-> <<"ai_relationship_plot", ".png">>]

Filenames(charts) == {charts[i].filename : i \in 1..Len(charts)}

\* C8: a chart instruction that raises when executed does not raise past
\* the Chart Engine: the chart stage returns normally, no chart is appended
\* for that slot, the other charts are produced, and the run completes.
C8_MalformedInstructionIsContained ==
    \A r \in Runs :
        agent[r].execFailed # {} =>
            /\ agent[r].raised = "none"
            /\ "chart" \in Range(agent[r].ran)
            /\ \A slot \in agent[r].execFailed :
                  SlotFile[slot] \notin Filenames(agent[r].charts)
            /\ Len(agent[r].charts)
                  = ChartCap - Cardinality(agent[r].execFailed)
            /\ Returned(r) =>
                  /\ agent[r].result = "True"
                  /\ LastStatus(r) = "completed"

C8_Witness ==
    \E r \in Runs :
        /\ agent[r].execFailed = {"heatmap"}
        /\ Returned(r)
        /\ db[agent[r].session].status = "completed"
        /\ SlotFile["relationship"] \in Filenames(agent[r].charts)

-----------------------------------------------------------------------------
(* Properties of DataAnalyzer.analyze (SpecAnalyze).                       *)

\* The instruction of an AI-suggested slot was returned and ran.
Executes(http) ==
    /\ Truthy(generate_chart_code(http))
    /\ ~ExecRaises(generate_chart_code(http))

\* The frame has at least two numeric and at least one categorical column.
FullFrame ==
    /\ Len(an.env.numeric_cols) >= 2
    /\ Len(an.env.categorical_cols) >= 1

BothExecute == Executes(an.env.heatmap) /\ Executes(an.env.relationship)

BothUnavailable ==
    /\ ~Truthy(generate_chart_code(an.env.heatmap))
    /\ ~Truthy(generate_chart_code(an.env.relationship))

\* The histogram, the bar chart and the box plot render without error:
\* nothing fails while drawing and their columns are still in the frame.
BuiltInsRender ==
    /\ an.env.renderRaises = {}
    /\ Range(an.env.numeric_cols) \cup Range(an.env.categorical_cols)
          \subseteq an.df

C10_CountEqualsChartsAppended == an.count = Len(an.charts)

\* The sub-list of the charts of kind basic, in order.
BasicCharts(charts) == SelectSeq(charts, LAMBDA c : c.type = "basic")

\* The same call of analyze with the Narrative Generator unavailable.
WithoutNarrativeGenerator(env) ==
    [env EXCEPT !.heatmap = HttpException, !.relationship = HttpException]

\* C11: the basic charts (histogram, bar chart, box plot) analyze returns for
\* a frame are the same for every behaviour of the Narrative Generator: they
\* are the ones returned when it is unavailable.
C11_BasicChartsIndependentOfNarrativeGenerator ==
    an.pc = "returned" =>
        BasicCharts(an.charts)
            = BasicCharts(analyze(WithoutNarrativeGenerator(an.env)))

-----------------------------------------------------------------------------
(* Properties of generate_custom_chart (SpecCustom).                       *)

\* C12: a custom chart request that answers success leaves the persisted
\* chart list equal to the list persisted before the request with the new
\* chart added at the end.
C12_CustomChartAppendedToPersistedList ==
    \A q \in Requests :
        (cc[q].pc = "done" /\ cc[q].success) =>
            cc[q].after = Append(cc[q].before, cc[q].chart)

-----------------------------------------------------------------------------
(* Properties of ReportGenerator (SpecReport).                             *)

\* The ids of the sections of a report, in the order the report holds them.
SectionOrder(report) ==
    [i \in 1..Len(report.sections) |-> report.sections[i].id]

OpIndex(op) == CHOOSE i \in 1..Len(SectionOps) : SectionOps[i] = op

\* C13: whatever the order of the add_* calls, the sections of the report
\* are in the order dataset_overview, data_quality, statistics,
\* visualizations, insights, executive_summary, recommendations.
C13_SectionOrderIsFixed ==
    \A i, j \in 1..Len(rg.report.sections) :
        i < j => OpIndex(SectionOrder(rg.report)[i])
                    < OpIndex(SectionOrder(rg.report)[j])

\* C14: on every report, calling an add_* operation twice with the same
\* argument gives the report that calling it once gives, and for two
\* different add_* operations the content under every section id is the same
\* whichever is called first.
C14_AddIsIdempotentAndOrderIndependent ==
    \A i \in 1..Len(SectionOps) : \A x \in ArgsOf(SectionOps[i]) :
        LET c == SectionOps[i]
            once == Apply(c, rg.report, x)
        IN  /\ Apply(c, once, x) = once
            /\ \A j \in 1..Len(SectionOps) : \A y \in ArgsOf(SectionOps[j]) :
                  LET d == SectionOps[j]
                      thenD == Apply(d, once, y)
                      thenC == Apply(c, Apply(d, rg.report, y), x)
                  IN  i < j =>
                        \A k \in 1..Len(SectionOps) :
                            Section(thenD, SectionOps[k])
                              = Section(thenC, SectionOps[k])

\* An operation was called again on a report that holds other sections.
C14_Witness ==
    /\ rg.calls = 3
    /\ Len(rg.report.sections) = 2
    /\ SectionOrder(rg.report) = <<"insights", "dataset_overview">>

-----------------------------------------------------------------------------
(* Claims about the cleaner.                                               *)

FrameRows(df) == Len(df.rows)
FrameCols(df) == Len(df.columns)

\* C15: after clean() the summary of get_cleaning_summary has
\* cleaned_rows <= original_rows and cleaned_cols <= original_cols, and no
\* step of clean leaves more rows or more columns than it found.
C15_CleaningNeverGrowsTheFrame ==
    /\ cl.pc = "returned" =>
         LET summary == get_cleaning_summary(cl.original, cl.c)
         IN  /\ summary.cleaned_rows <= summary.original_rows
             /\ summary.cleaned_cols <= summary.original_cols
    /\ (cl.pc = "cleaning" /\ cl.k <= Len(CleanSteps)) =>
         LET after == RunStep(CleanSteps[cl.k], cl.c)
         IN  /\ FrameRows(after.df) <= FrameRows(cl.c.df)
             /\ FrameCols(after.df) <= FrameCols(cl.c.df)

\* clean() has returned a frame that lost a row and a column.
C15_Witness ==
    /\ cl.pc = "returned"
    /\ get_cleaning_summary(cl.original, cl.c).cleaned_rows
           < get_cleaning_summary(cl.original, cl.c).original_rows
    /\ get_cleaning_summary(cl.original, cl.c).cleaned_cols
           < get_cleaning_summary(cl.original, cl.c).original_cols

\* C16: running clean on the frame clean returned gives that frame again:
\* the second run removes no duplicate row, changes no column type and
\* imputes no value.
C16_CleanIsIdempotent ==
    cl.pc = "returned" =>
        /\ ~clean(cl.c.df).raised
        /\ clean(cl.c.df).df = cl.c.df

\* The frame _handle_missing_values is about to be run on, and the frame it
\* leaves.
AtMissingStep == cl.pc = "cleaning" /\ cl.k = 4
AfterMissingStep == _handle_missing_values(cl.c).df

\* Every missing cell of column j of `df` holds the median of the cells of
\* that column that are not missing in `df`, and every other cell is as it
\* was.
MedianFilled(df, after, j) ==
    Column(after, j) =
        [i \in 1..Len(df.rows) |->
            IF i \in Missing(df, j) THEN Median(Column(df, j))
            ELSE df.rows[i][j]]

\* C17 (as the code has it): _handle_missing_values keeps a column as it is
\* only when MORE than 50% of its cells are missing; a numeric column with
\* missing cells that are at most 50% of its cells, exactly 50% included,
\* has every missing cell filled with the median of its non-missing values
\* as they were before imputation.
C17_MoreThanHalfMissingIsKept ==
    AtMissingStep =>
        \A j \in 1..Len(cl.c.df.columns) :
            LET missing == Cardinality(Missing(cl.c.df, j))
            IN  /\ 2 * missing > Len(cl.c.df.rows) =>
                     Column(AfterMissingStep, j) = Column(cl.c.df, j)
                /\ (/\ cl.c.df.columns[j].dtype = "float64"
                    /\ 2 * missing <= Len(cl.c.df.rows)) =>
                     MedianFilled(cl.c.df, AfterMissingStep, j)

\* _handle_missing_values has filled a numeric column that was exactly 50%
\* missing.
C17_Witness ==
    /\ cl.pc = "cleaning"
    /\ cl.k = 5
    /\ cl.c.df.columns = cl.original.columns
    /\ Len(cl.c.df.rows) = Len(cl.original.rows)
    /\ \E j \in 1..Len(cl.original.columns) :
          /\ cl.original.columns[j].dtype = "float64"
          /\ 2 * Cardinality(Missing(cl.original, j)) = Len(cl.original.rows)
          /\ Missing(cl.c.df, j) = {}

\* C17 as stated: a column with exactly 50% of its cells missing is kept as
\* it is, and a numeric column with fewer than 50% missing is filled with
\* its pre-imputation median.
C17_ExactlyHalfMissingIsKept ==
    AtMissingStep =>
        \A j \in 1..Len(cl.c.df.columns) :
            LET missing == Cardinality(Missing(cl.c.df, j))
            IN  /\ 2 * missing = Len(cl.c.df.rows) =>
                     Column(AfterMissingStep, j) = Column(cl.c.df, j)
                /\ (/\ cl.c.df.columns[j].dtype = "float64"
                    /\ 2 * missing < Len(cl.c.df.rows)) =>
                     MedianFilled(cl.c.df, AfterMissingStep, j)

\* The frame _fix_data_types is about to be run on, and the frame it
\* leaves.
AtTypesStep == cl.pc = "cleaning" /\ cl.k = 3
AfterTypesStep == _fix_data_types(cl.c).df

\* The cells of column j of `df` that read as numbers.
Convertible(df, j) ==
    {i \in 1..Len(df.rows) : df.rows[i][j][1] \in {"num", "numstr"}}

\* Column j of `after` is the numeric form of column j of `df`: numeric
\* dtype, every cell that reads as a number that number, every other cell
\* missing.
NumericForm(df, after, j) ==
    /\ after.columns[j].dtype = "float64"
    /\ Column(after, j) =
           [i \in 1..Len(df.rows) |->
               IF i \in Convertible(df, j) THEN <<"num", df.rows[i][j][2]>>
               ELSE NaN]

SameColumn(df, after, j) ==
    /\ after.columns[j] = df.columns[j]
    /\ Column(after, j) = Column(df, j)

StepsOf(report) == [i \in 1..Len(report) |-> report[i].step]

\* C19: after clean the report holds, in step order, one entry for each of
\* the six steps, whether or not the step changed anything.
C19_ReportHasOneEntryPerStep ==
    cl.pc = "returned" => StepsOf(cl.c.report) = CleanSteps

\* C20: no step of clean raises to the caller of clean: a failure is caught
\* within its step and the later steps still run.
C20_CleanNeverRaises == cl.pc # "raised"

-----------------------------------------------------------------------------
(* Claims about the profiler.                                              *)

\* How many times `label` occurs in the sequence `s`.
Occurrences(s, label) == Cardinality({i \in 1..Len(s) : s[i] = label})

\* C21: the column types of the profile are a partition of the columns of
\* the frame: every column is in exactly one of the numeric, categorical
\* and datetime lists, once, and the lists hold nothing else.
C21_ColumnTypesPartitionTheColumns ==
    pr.pc = "classified" =>
        LET types == pr.profile.column_types
            labels == {pr.df.columns[j].label : j \in 1..Len(pr.df.columns)}
        IN  /\ Range(types.numeric) \cap Range(types.categorical) = {}
            /\ Range(types.numeric) \cap Range(types.datetime) = {}
            /\ Range(types.categorical) \cap Range(types.datetime) = {}
            /\ Range(types.numeric) \cup Range(types.categorical)
                   \cup Range(types.datetime) = labels
            /\ \A label \in labels :
                   Occurrences(types.numeric, label)
                       + Occurrences(types.categorical, label)
                       + Occurrences(types.datetime, label) = 1

\* A frame with a number column of few unique values and a number column
\* of many has been classified.
C21_Witness ==
    /\ pr.pc = "classified"
    /\ \E j, k \in 1..Len(pr.df.columns) :
          /\ pr.df.columns[j].dtype = "int64"
          /\ pr.df.columns[k].dtype = "int64"
          /\ pr.df.columns[j].label \in Range(pr.profile.column_types.numeric)
          /\ pr.df.columns[k].label
                 \in Range(pr.profile.column_types.categorical)

\* C22: a numeric-typed column is categorical if and only if its unique
\* count is below 10 and below 5% of the rows, and numeric otherwise; a
\* column that is neither numeric nor datetime is categorical.
C22_NumericColumnsClassifiedByUniqueCount ==
    pr.pc = "classified" =>
        \A j \in 1..Len(pr.df.columns) :
            LET col == pr.df.columns[j]
                types == pr.profile.column_types
                below == col.nunique < 10 /\ 20 * col.nunique < pr.df.rows
            IN  IF col.dtype \in NumericDtypes
                THEN /\ col.label \in Range(types.categorical) <=> below
                     /\ col.label \in Range(types.numeric) <=> ~below
                ELSE col.dtype # "datetime64[ns]" =>
                         col.label \in Range(types.categorical)

-----------------------------------------------------------------------------
(* Claims about the result store.                                          *)

\* C23: for session ids a # b, update_session_status, save_analysis_result,
\* save_dataframe and clear_session_data applied to a leave the status and
\* the directory (cleaned dataset, profile, charts, insights, report) of b
\* as they were, in every state the two sessions' operations can reach.
C23_SessionsDoNotInterfere ==
    \A a, b \in DOMAIN store :
        a # b =>
          /\ \A status \in Statuses :
                update_session_status(db, a, status)[b] = db[b]
          /\ \A result_type \in ResultTypes, raises \in BOOLEAN :
                save_analysis_result(store, a, result_type,
                                     ResultData(a, result_type), raises)[b]
                    = store[b]
          /\ \A raises \in BOOLEAN :
                /\ save_dataframe(store, a, raises)[b] = store[b]
                /\ clear_session_data(store, a, raises)[b] = store[b]

\* Session s1 was completed and then cleared while session s2 holds its
\* cleaned dataset and all four artifacts.
C23_Witness ==
    /\ DOMAIN store = TwoSessions
    /\ db["s1"].status = "completed"
    /\ store["s1"] = EmptyDir
    /\ db["s2"].status = "analyzing"
    /\ store["s2"].cleaned
    /\ \A result_type \in ResultTypes :
          /\ has_analysis_result(store, "s2", result_type)
    /\ store["s2"].report = ResultData("s2", "report")

-----------------------------------------------------------------------------
(* Claims about the run as a whole.                                        *)

\* C24: every run that has set the status to analyzing eventually sets it
\* to completed or to error, whatever instructions the Narrative Generator
\* returns.
C24_EveryRunEnds ==
    \A r \in Runs :
        (agent[r].statusSet # <<>>)
            ~> (/\ agent[r].statusSet # <<>>
                /\ LastStatus(r) \in {"completed", "error"})

\* C25: a run that has returned gave True if and only if the status it
\* left is completed, and gave False whenever the status it left is error;
\* a run in which a stage raised gave False and never set completed.
C25_ResultTellsTheStatus ==
    \A r \in Runs :
        Returned(r) =>
            /\ agent[r].result = "True" <=> LastStatus(r) = "completed"
            /\ LastStatus(r) = "error" => agent[r].result = "False"
            /\ agent[r].result \in {"True", "False"}
            /\ agent[r].raised # "none" =>
                  /\ agent[r].result = "False"
                  /\ "completed" \notin Range(agent[r].statusSet)

\* One run of the session has returned True and another has failed in a
\* stage and returned False.
C25_Witness ==
    \E r, q \in Runs :
        /\ Returned(r) /\ agent[r].result = "True"
        /\ LastStatus(r) = "completed"
        /\ Returned(q) /\ agent[q].result = "False"
        /\ agent[q].raised # "none"
        /\ LastStatus(q) = "error"

-----------------------------------------------------------------------------
(* Claims about the chart files and the custom chart requests.             *)

\* The characters a file name must not hold: path separators and
\* whitespace.
Unsafe == {"/", "\\"} \cup Whitespace

\* C26: the file name of every chart the Chart Engine has produced, the
\* charts of the run and the custom charts alike, holds no path separator
\* and no whitespace character.
C26_ChartFileNamesAreSafe ==
    /\ \A s \in Sessions :
          \A i \in 1..Len(PersistedCharts(store, s)) :
              Range(PersistedCharts(store, s)[i].filename) \cap Unsafe = {}
    /\ \A q \in Requests :
          Range(cc[q].chart.filename) \cap Unsafe = {}

\* C27: in every state the requests on a session can reach, a session
\* whose status is completed has a persisted report artifact.
C27_CompletedSessionHasReport ==
    \A s \in Sessions :
        db[s].status = "completed" => has_analysis_result(store, s, "report")

\* The requests have all been answered and no run is in progress.
AllFinished ==
    /\ \A q \in Requests : cc[q].pc \in {"idle", "done"}
    /\ \A r \in Runs : agent[r].pc \in {"idle", "done"}

\* C28: once every request has finished, the persisted chart list holds
\* the chart of every custom chart request that answered success.
C28_NoSuccessfulCustomChartIsLost ==
    AllFinished =>
        \A q \in Requests :
            (cc[q].pc = "done" /\ cc[q].success /\ cc[q].read = cc[q].before
               /\ unwritable = {}) =>
                \E i \in 1..Len(PersistedCharts(store, cc[q].session)) :
                    PersistedCharts(store, cc[q].session)[i] = cc[q].chart

\* The session directory of s holds after the step what it held before,
\* the chart list aside.
OnlyChartsChanged(s) ==
    /\ store'[s].upload = store[s].upload
    /\ store'[s].cleaned = store[s].cleaned
    /\ store'[s].profile = store[s].profile
    /\ store'[s].insights = store[s].insights
    /\ store'[s].report = store[s].report
    /\ store'[s].has \ {"charts"} = store[s].has \ {"charts"}

\* Request q answers failure in this step.
AnswersFailure(q) ==
    cc[q].pc # "done" /\ cc'[q].pc = "done" /\ ~cc'[q].success

\* C29: a step of generate_custom_chart leaves the session rows (the
\* status) and the profile, insights and report artifacts as they were,
\* and a step that answers failure leaves the chart list as it was too.
C29_CustomChartChangesOnlyCharts ==
    [][(cc' # cc) =>
         /\ db' = db
         /\ \A s \in SessionIds : OnlyChartsChanged(s)
         /\ \A q \in Requests : AnswersFailure(q) => store' = store]_vars

\* One request saved its chart into a session that has a profile, a report
\* and the status completed, and another request answered failure.
C29_Witness ==
    \E q1, q2 \in Requests :
        /\ cc[q1].pc = "done" /\ cc[q1].success
        /\ cc[q1].after # cc[q1].before
        /\ db[cc[q1].session].status = "completed"
        /\ {"profile", "insights", "report"} \subseteq store[cc[q1].session].has
        /\ cc[q2].pc = "done" /\ ~cc[q2].success

\* Run r is started in this step on a session id the store does not know.
StartsOnUnknownSession(r) ==
    /\ agent[r].pc = "idle"
    /\ agent'[r].pc # "idle"
    /\ ~get_session(db, agent'[r].session).exists

\* C30: run_analysis on a session id without a row returns False at once:
\* no status update, no dataset loaded, no step run, no artifact written.
C30_UnknownSessionHasNoEffect ==
    [][\A r \in Runs :
         StartsOnUnknownSession(r) =>
             /\ agent'[r].pc = "done"
             /\ agent'[r].result = "False"
             /\ agent'[r].statusSet = <<>>
             /\ agent'[r].ran = <<>>
             /\ agent'[r].wrote = {}
             /\ ~agent'[r].cleanedSaved
             /\ db' = db
             /\ store' = store]_vars

\* A run on the unknown session id has returned False while another
\* session has a row.
C30_Witness ==
    \E r \in Runs :
        /\ agent[r].pc = "done"
        /\ agent[r].session = UnknownId
        /\ agent[r].result = "False"
        /\ agent[r].statusSet = <<>>
        /\ \E s \in Sessions : db[s].exists

=============================================================================
